---- MODULE Spec2Model ----
(***************************************************************************)
(* AgentGroup (pycityagent/simulation/agentgroup.py): a group of agents    *)
(* driven by step()/run(), a background message dispatch loop and the      *)
(* avro status writer.  The group is an asyncio actor: the code between    *)
(* two awaits runs atomically, so every action below is "the await the     *)
(* coroutine is suspended at completes (or raises), and the coroutine runs *)
(* on to its next await".                                                  *)
(***************************************************************************)
EXTENDS Integers, Sequences, FiniteSets, TLC

\* ------------------------------------------------------------------ bounds
NumAgents == 2
MaxCalls == 2
MaxMsgs == 2
MaxDays == 1
MaxTicks == 3
MaxSteps == 2

\* --------------------------------------------------------- program constants
Sentinel == -1
SecondsPerDay == 24 * 3600
\* the model's simulator clock advances in half days
TickSeconds == SecondsPerDay \div 2
MaxTime == MaxTicks * TickSeconds

Agents == 1..NumAgents
Calls == 1..MaxCalls
Days == 0..MaxDays

\* agent._uuid of the agents the group owns, in list order
AllUuids == <<"u1", "u2", "u3", "u4">>
agents == SubSeq(AllUuids, 1, NumAgents)
\* an agent of the experiment that this group does not own
ForeignUuid == "ux"
exp_id == "E"

KINDS == <<"agent-chat", "user-chat", "user-survey", "gather">>
AvroKinds == {"profile", "dialog", "status", "survey"}

VARIABLES
    enable_avro,    \* self.enable_avro
    institution,    \* issubclass(type(self.agents[0]), InstitutionAgent)
    initialized,    \* self.initialized
    id2agent,       \* self.id2agent: uuid -> index into self.agents
    bound,          \* per agent: completed bind_to_simulator() calls
    connected,      \* self.messager.is_connected()
    listening,      \* completed messager.start_listening() calls
    subs,           \* messager subscriptions: <<uuid, kind>> -> count
    dispatch,       \* the message_dispatch tasks created, in creation order
    queue,          \* messages buffered by the messager
    delivered,      \* messages received from the broker so far
    handled,        \* handler invocations, in invocation order
    avro,           \* the four avro files: times opened "wb", records held
    time,           \* simulator.get_time()
    call            \* the calls made on the actor: coroutine position and locals

vars == <<enable_avro, institution, initialized, id2agent, bound, connected,
          listening, subs, dispatch, queue, delivered, handled, avro, time,
          call>>

\* the variables no call of init_agents / step / run writes
envVars == <<enable_avro, institution>>

\* ------------------------------------------------------------------ helpers
None == "None"
UnboundLocalError == "UnboundLocalError"
ValueError == "ValueError"

Range(s) == {s[i] : i \in DOMAIN s}

\* mutant: the mapping is built before the loop over the agents has ended
BuildId2AgentShort(ags) == [u \in {ags[1]} |-> 1]

\* {agent._uuid: agent for agent in self.agents}
BuildId2Agent(ags) ==
    [u \in Range(ags) |-> CHOOSE i \in DOMAIN ags :
                              /\ ags[i] = u
                              /\ \A j \in DOMAIN ags : ags[j] = u => j <= i]

\* a file opened with "wb": created or truncated
OpenWb(f) == [opens |-> f.opens + 1, records |-> <<>>]
\* fastavro.writer on an open file: the records follow what the file holds
WriteRecords(f, recs) == [f EXCEPT !.records = @ \o recs]

\* f"exps/{self.exp_id}/agents/{agent._uuid}/{kind}", as its "/"-separated segments
Topic(uuid, kind) == <<"exps", exp_id, "agents", uuid, kind>>

\* the subscription made at the k-th subscribe of an agent (lines 88-95)
SubscribedTopic(uuid, k) == Topic(uuid, KINDS[k])

\* what memory.get("position") may hold: always the coordinates, and the
\* area-of-interest shape, the lane shape, both or neither
LongLat == [longitude |-> 116, latitude |-> 39]
Positions ==
    { [longlat_position |-> LongLat],
      [longlat_position |-> LongLat, aoi_position |-> [aoi_id |-> 500000000]],
      [longlat_position |-> LongLat, lane_position |-> [lane_id |-> 7]],
      [longlat_position |-> LongLat, aoi_position |-> [aoi_id |-> 500000000],
       lane_position |-> [lane_id |-> 7]] }
OnLane == [longlat_position |-> LongLat, lane_position |-> [lane_id |-> 7]]
\* the local `position` of save_status() before its first assignment
NoPosition == [unset |-> TRUE]

\* ---------------------------------------------------------------- call record
\* `again` is history: init_agents() was called on a group already initialized
IdleCall == [kind |-> None, pc |-> "idle", again |-> FALSE, i |-> 0, k |-> 0,
             profiles |-> <<>>,
             avros |-> <<>>, position |-> NoPosition,
             tasks |-> [a \in Agents |-> None], day |-> 0,
             start_time |-> 0, end_time |-> 0, current_time |-> 0]

Returned(r) == [r EXCEPT !.pc = "returned", !.i = 0, !.k = 0, !.profiles = <<>>,
                         !.avros = <<>>, !.position = NoPosition]
\* mutant: step() catches what init_agents() raises and goes on
RaisedSwallowed(r) ==
    IF r.kind = "init" \/ r.pc \notin {"bind", "connect", "listen", "subscribe", "export"}
    THEN [r EXCEPT !.pc = "raised", !.i = 0, !.k = 0, !.profiles = <<>>,
                   !.avros = <<>>, !.position = [unset |-> TRUE]]
    ELSE [r EXCEPT !.pc = "gather", !.i = 0, !.k = 0, !.profiles = <<>>,
                   !.tasks = [a \in DOMAIN r.tasks |-> "running"]]

\* mutant: run() logs the failure of a step and goes on with its loop
RaisedRetried(r) ==
    IF r.kind = "run" /\ r.pc = "gather"
    THEN [r EXCEPT !.pc = "get_time", !.i = 0, !.k = 0, !.profiles = <<>>,
                   !.avros = <<>>, !.position = [unset |-> TRUE]]
    ELSE [r EXCEPT !.pc = "raised", !.i = 0, !.k = 0, !.profiles = <<>>,
                   !.avros = <<>>, !.position = [unset |-> TRUE]]

\* an exception leaves the coroutine; run() logs it and re-raises (lines 271-273)
Raised(r) == [r EXCEPT !.pc = "raised", !.i = 0, !.k = 0, !.profiles = <<>>,
                       !.avros = <<>>, !.position = NoPosition]

\* tasks = [agent.run() for agent in self.agents]; await asyncio.gather(*tasks)
EnterGather(r) == [r EXCEPT !.pc = "gather", !.i = 0, !.k = 0, !.profiles = <<>>,
                            !.tasks = [a \in Agents |-> "running"]]

\* init_agents() returns: to its caller, or into step() at line 247
AfterInit(r) == IF r.kind = "init" THEN Returned(r) ELSE EnterGather(r)

\* step() returns: to its caller, or into run()'s loop at line 265
AfterStep(r) == IF r.kind = "run"
                THEN [r EXCEPT !.pc = "get_time", !.i = 0, !.avros = <<>>,
                               !.position = NoPosition]
                ELSE Returned(r)

\* init_agents() is entered: the first bind_to_simulator() is awaited
EnterInit(r) == [r EXCEPT !.pc = "bind", !.i = 1]

\* step() is entered: if not self.initialized: await self.init_agents()
NeedsInit(flag) == ~flag
EnterStep(r) == IF NeedsInit(initialized) THEN EnterInit(r) ELSE EnterGather(r)

\* save_status() is entered (line 184), up to its first await or to its return
EnterSaveStatus(r) ==
    IF ~enable_avro THEN AfterStep(r)
    ELSE [r EXCEPT !.pc = IF institution THEN "fields" ELSE "position",
                   !.i = 1, !.avros = <<>>]

\* --------------------------------------------------------------------- Init
Init ==
    /\ enable_avro \in BOOLEAN
    /\ institution \in BOOLEAN
    /\ initialized = FALSE
    /\ id2agent = <<>>
    /\ bound = [a \in Agents |-> 0]
    /\ connected = FALSE
    /\ listening = 0
    /\ subs = [t \in {Topic(u, k) : u \in Range(agents), k \in Range(KINDS)} |-> 0]
    /\ dispatch = <<>>
    /\ queue = <<>>
    /\ delivered = 0
    /\ handled = <<>>
    /\ avro = [f \in AvroKinds |-> [opens |-> 0, records |-> <<>>]]
    /\ time = 0
    /\ call = [c \in Calls |-> IdleCall]

\* ------------------------------------------------------------- entry points
CanStart(c) == /\ call[c].pc = "idle"
               /\ \A d \in Calls : d < c => call[d].pc # "idle"

CallInitAgents(c) ==
    /\ CanStart(c)
    /\ call' = [call EXCEPT ![c] = EnterInit([@ EXCEPT !.kind = "init",
                                                        !.again = initialized])]
    /\ UNCHANGED <<envVars, initialized, id2agent, bound, connected, listening,
                   subs, dispatch, queue, delivered, handled, avro, time>>

CallStep(c) ==
    /\ CanStart(c)
    /\ call' = [call EXCEPT ![c] = EnterStep([@ EXCEPT !.kind = "step"])]
    /\ UNCHANGED <<envVars, initialized, id2agent, bound, connected, listening,
                   subs, dispatch, queue, delivered, handled, avro, time>>

CallRun(c, d) ==
    /\ CanStart(c)
    /\ call' = [call EXCEPT ![c] = [@ EXCEPT !.kind = "run", !.day = d,
                                             !.pc = "get_start"]]
    /\ UNCHANGED <<envVars, initialized, id2agent, bound, connected, listening,
                   subs, dispatch, queue, delivered, handled, avro, time>>

\* ------------------------------------------------------ init_agents (76-132)
\* asyncio.create_task(self.message_dispatch()): the task has not run yet
NewDispatchTask == [pc |-> "start", batch |-> <<>>, warned |-> FALSE]

\* mutant: the survey file is not created
CreateLogsNoSurvey(files) == [files EXCEPT !.dialog = OpenWb(@), !.status = OpenWb(@)]

\* dialog, status and survey are opened "wb" and an empty record list written
CreateLogs(files) == [files EXCEPT !.dialog = OpenWb(@), !.status = OpenWb(@),
                                   !.survey = OpenWb(@)]

\* lines 96-131, from create_task to the next await or to the end
FinishInit(c) ==
    /\ dispatch' = Append(dispatch, NewDispatchTask)
    /\ IF enable_avro /\ ~institution
       THEN /\ avro' = [avro EXCEPT !.profile = OpenWb(@)]
            /\ call' = [call EXCEPT ![c] = [@ EXCEPT !.pc = "export", !.i = 1,
                                                     !.k = 0, !.profiles = <<>>]]
            /\ UNCHANGED initialized
       ELSE /\ avro' = IF enable_avro THEN CreateLogs(avro) ELSE avro
            /\ initialized' = TRUE
            /\ call' = [call EXCEPT ![c] = AfterInit(@)]

\* await agent.bind_to_simulator() returns (79-81)
BindReturn(c) ==
    LET a == call[c].i IN
    /\ call[c].pc = "bind"
    /\ bound' = [bound EXCEPT ![a] = @ + 1]
    /\ IF a < NumAgents
       THEN /\ call' = [call EXCEPT ![c] = [@ EXCEPT !.i = a + 1]]
            /\ UNCHANGED id2agent
       ELSE /\ id2agent' = BuildId2Agent(agents)
            /\ call' = [call EXCEPT ![c] = [@ EXCEPT !.pc = "connect", !.i = 0]]
    /\ UNCHANGED <<envVars, initialized, connected, listening, subs, dispatch,
                   queue, delivered, handled, avro, time>>

\* an awaited collaborator call of init_agents raises: bind_to_simulator, connect,
\* start_listening, subscribe, or the profile export
InitAwaits == {"bind", "connect", "listen", "subscribe", "export"}

InitRaise(c) ==
    /\ call[c].pc \in InitAwaits
    /\ call' = [call EXCEPT ![c] = Raised(@)]
    /\ UNCHANGED <<envVars, initialized, id2agent, bound, connected, listening,
                   subs, dispatch, queue, delivered, handled, avro, time>>

\* await self.messager.connect() returns, connected or not (83-85)
ConnectReturn(c, ok) ==
    /\ call[c].pc = "connect"
    /\ connected' = ok
    /\ IF ok
       THEN /\ call' = [call EXCEPT ![c] = [@ EXCEPT !.pc = "listen"]]
            /\ UNCHANGED <<dispatch, avro, initialized>>
       ELSE FinishInit(c)
    /\ UNCHANGED <<envVars, id2agent, bound, listening, subs, queue, delivered,
                   handled, time>>

\* await self.messager.start_listening() returns (85-89)
ListenReturn(c) ==
    /\ call[c].pc = "listen"
    /\ listening' = listening + 1
    /\ call' = [call EXCEPT ![c] = [@ EXCEPT !.pc = "subscribe", !.i = 1, !.k = 1]]
    /\ UNCHANGED <<envVars, initialized, id2agent, bound, connected, subs,
                   dispatch, queue, delivered, handled, avro, time>>

\* await self.messager.subscribe(topic, agent) returns (86-95)
SubscribeReturn(c) ==
    LET a == call[c].i
        k == call[c].k IN
    /\ call[c].pc = "subscribe"
    /\ subs' = [subs EXCEPT ![SubscribedTopic(agents[a], k)] = @ + 1]
    /\ IF k < Len(KINDS)
       THEN /\ call' = [call EXCEPT ![c] = [@ EXCEPT !.k = k + 1]]
            /\ UNCHANGED <<dispatch, avro, initialized>>
       ELSE IF a < NumAgents
            THEN /\ call' = [call EXCEPT ![c] = [@ EXCEPT !.i = a + 1, !.k = 1]]
                 /\ UNCHANGED <<dispatch, avro, initialized>>
            ELSE FinishInit(c)
    /\ UNCHANGED <<envVars, id2agent, bound, connected, listening, queue,
                   delivered, handled, time>>

\* await agent.memory._profile.export() returns (100-131)
ExportReturn(c) ==
    LET a == call[c].i
        profiles == Append(call[c].profiles, [id |-> agents[a]]) IN
    /\ call[c].pc = "export"
    /\ IF a < NumAgents
       THEN /\ call' = [call EXCEPT ![c] = [@ EXCEPT !.i = a + 1,
                                                     !.profiles = profiles]]
            /\ UNCHANGED <<avro, initialized>>
       ELSE /\ avro' = CreateLogs([avro EXCEPT
                                     !.profile = WriteRecords(@, profiles)])
            /\ initialized' = TRUE
            /\ call' = [call EXCEPT ![c] = AfterInit(@)]
    /\ UNCHANGED <<envVars, id2agent, bound, connected, listening, subs,
                   dispatch, queue, delivered, handled, time>>

\* ------------------------------------------------------------ step (243-249)
\* an agent.run() coroutine that gather scheduled finishes
AgentRunDone(c, a) ==
    /\ call[c].tasks[a] = "running"
    /\ call' = [call EXCEPT ![c] = [@ EXCEPT !.tasks[a] = "done"]]
    /\ UNCHANGED <<envVars, initialized, id2agent, bound, connected, listening,
                   subs, dispatch, queue, delivered, handled, avro, time>>

\* ... or raises
AgentRunRaise(c, a) ==
    /\ call[c].tasks[a] = "running"
    /\ call' = [call EXCEPT ![c] = [@ EXCEPT !.tasks[a] = "failed"]]
    /\ UNCHANGED <<envVars, initialized, id2agent, bound, connected, listening,
                   subs, dispatch, queue, delivered, handled, avro, time>>

\* mutant: asyncio.wait(..., return_when=FIRST_COMPLETED)
GatherFirstDone(tasks) == \E a \in Agents : tasks[a] = "done"

\* asyncio.gather: done when every task is, raising as soon as one has raised
GatherDone(tasks) == \A a \in Agents : tasks[a] = "done"
GatherFailed(tasks) == \E a \in Agents : tasks[a] = "failed"

\* await asyncio.gather(*tasks) returns; save_status() is entered (248-249)
GatherReturn(c) ==
    /\ call[c].pc = "gather"
    /\ GatherDone(call[c].tasks)
    /\ call' = [call EXCEPT ![c] = EnterSaveStatus(@)]
    /\ UNCHANGED <<envVars, initialized, id2agent, bound, connected, listening,
                   subs, dispatch, queue, delivered, handled, avro, time>>

\* await asyncio.gather(*tasks) raises the first exception of a task
GatherRaise(c) ==
    /\ call[c].pc = "gather"
    /\ GatherFailed(call[c].tasks)
    /\ call' = [call EXCEPT ![c] = Raised(@)]
    /\ UNCHANGED <<envVars, initialized, id2agent, bound, connected, listening,
                   subs, dispatch, queue, delivered, handled, avro, time>>

\* ----------------------------------------------------- save_status (183-241)
\* lines 192-198
Value(v) == [exc |-> None, value |-> v]
Raise(e) == [exc |-> e, value |-> 0]

\* mutant: the else branch is missing and parent_id is unbound at line 208
ParentIdNoElse(pos) ==
    IF "aoi_position" \in DOMAIN pos THEN Value(pos.aoi_position.aoi_id)
    ELSE IF "lane_position" \in DOMAIN pos THEN Value(pos.lane_position.lane_id)
    ELSE Raise(UnboundLocalError)

\* lines 192-198: the value of parent_id, or the exception raised computing it
ParentId(pos) ==
    IF "aoi_position" \in DOMAIN pos THEN Value(pos.aoi_position.aoi_id)
    ELSE IF "lane_position" \in DOMAIN pos THEN Value(pos.lane_position.lane_id)
    ELSE Value(Sentinel)

\* the citizen record of lines 202-215; of the fields read from the agent's
\* memory and the simulator clock, the position's are kept
StatusRecord(uuid, pos) ==
    [id |-> uuid, lng |-> pos.longlat_position.longitude,
     lat |-> pos.longlat_position.latitude, parent_id |-> ParentId(pos).value]

\* the institution record of lines 221-238
InstitutionRecord(uuid) == [id |-> uuid, type |-> "institution"]

\* with open(self.avro_file["status"], "a+b"): fastavro.writer(f, ..., avros)
AppendStatus(files, avros) == [files EXCEPT !.status = WriteRecords(@, avros)]

\* position = await agent.memory.get("position") returns (189)
PositionReturn(c, pos) ==
    /\ call[c].pc = "position"
    /\ call' = [call EXCEPT ![c] = [@ EXCEPT !.pc = "needs", !.position = pos]]
    /\ UNCHANGED <<envVars, initialized, id2agent, bound, connected, listening,
                   subs, dispatch, queue, delivered, handled, avro, time>>

\* the later awaits of the agent's record return (199-216): parent_id is computed
\* and the record joins the batch; after the last agent the batch is written
\* (217-218) and step() goes on
NeedsReturn(c) ==
    LET a == call[c].i
        avros == Append(call[c].avros, StatusRecord(agents[a], call[c].position)) IN
    /\ call[c].pc = "needs"
    /\ IF ParentId(call[c].position).exc # None
       THEN /\ call' = [call EXCEPT ![c] = Raised(@)]
            /\ UNCHANGED avro
       ELSE IF a < NumAgents
            THEN /\ call' = [call EXCEPT ![c] = [@ EXCEPT !.pc = "position",
                                                          !.i = a + 1,
                                                          !.avros = avros]]
                 /\ UNCHANGED avro
            ELSE /\ avro' = AppendStatus(avro, avros)
                 /\ call' = [call EXCEPT ![c] = AfterStep(@)]
    /\ UNCHANGED <<envVars, initialized, id2agent, bound, connected, listening,
                   subs, dispatch, queue, delivered, handled, time>>

\* the awaits of one institution agent's record return (220-241)
FieldsReturn(c) ==
    LET a == call[c].i
        avros == Append(call[c].avros, InstitutionRecord(agents[a])) IN
    /\ call[c].pc = "fields"
    /\ IF a < NumAgents
       THEN /\ call' = [call EXCEPT ![c] = [@ EXCEPT !.i = a + 1, !.avros = avros]]
            /\ UNCHANGED avro
       ELSE /\ avro' = AppendStatus(avro, avros)
            /\ call' = [call EXCEPT ![c] = AfterStep(@)]
    /\ UNCHANGED <<envVars, initialized, id2agent, bound, connected, listening,
                   subs, dispatch, queue, delivered, handled, time>>

\* ------------------------------------------------------------- run (251-273)
\* end_time = start_time + day * 24 * 3600
EndTime(start, day) == start + day * SecondsPerDay

\* mutant: the loop breaks only after the target time
RunOverStrict(current, end) == current > end

\* if current_time >= end_time: break
RunOver(current, end) == current >= end

\* start_time = await self.simulator.get_time() returns (259-262)
GetStartReturn(c) ==
    /\ call[c].pc = "get_start"
    /\ call' = [call EXCEPT ![c] = [@ EXCEPT !.pc = "get_time",
                                             !.start_time = time,
                                             !.end_time = EndTime(time, call[c].day)]]
    /\ UNCHANGED <<envVars, initialized, id2agent, bound, connected, listening,
                   subs, dispatch, queue, delivered, handled, avro, time>>

\* the status log has room for the records of one more step of run()
StatusRoom == Len(avro.status.records) < MaxSteps * NumAgents

\* current_time = await self.simulator.get_time() returns (265-269)
GetTimeReturn(c) ==
    /\ call[c].pc = "get_time"
    /\ RunOver(time, call[c].end_time) \/ StatusRoom
    /\ call' = [call EXCEPT ![c] =
                  IF RunOver(time, @.end_time)
                  THEN Returned([@ EXCEPT !.current_time = time])
                  ELSE EnterStep([@ EXCEPT !.current_time = time])]
    /\ UNCHANGED <<envVars, initialized, id2agent, bound, connected, listening,
                   subs, dispatch, queue, delivered, handled, avro, time>>

\* the simulator clock advances
Tick ==
    /\ time < MaxTime
    /\ time' = time + TickSeconds
    /\ UNCHANGED <<envVars, initialized, id2agent, bound, connected, listening,
                   subs, dispatch, queue, delivered, handled, avro, call>>

\* ------------------------------------------------ message_dispatch (146-181)
\* topic.strip("/"): a topic is held as its "/"-separated segments, a leading or
\* trailing "/" being an empty first or last segment
RECURSIVE LStrip(_)
LStrip(segs) == IF segs # <<>> /\ Head(segs) = "" THEN LStrip(Tail(segs)) ELSE segs
RECURSIVE RStrip(_)
RStrip(segs) == IF segs # <<>> /\ segs[Len(segs)] = ""
                THEN RStrip(SubSeq(segs, 1, Len(segs) - 1)) ELSE segs
Strip(segs) == RStrip(LStrip(segs))

\* "".split("/") is [""]
Split(segs) == IF segs = <<>> THEN <<"">> ELSE segs

\* _, _, _, agent_uuid, topic_type = topic.strip("/").split("/")   (line 167)
ParseTopic(topic) ==
    LET parts == Split(Strip(topic)) IN
    IF Len(parts) = 5
    THEN [exc |-> None, agent_uuid |-> parts[4], topic_type |-> parts[5]]
    ELSE [exc |-> ValueError, agent_uuid |-> None, topic_type |-> None]

\* payload.decode("utf-8"), then json.loads: the bytes of a JSON text become the
\* text, the text becomes the record it encodes
Utf8Decode(b) == [enc |-> "str", body |-> b.body]
JsonLoads(s) == [enc |-> "dict", body |-> s.body]

\* lines 162-164
Decode(payload) ==
    IF payload.enc = "bytes" THEN JsonLoads(Utf8Decode(payload)) ELSE payload

\* the if / elif chain of lines 172-179
HandlerOf(topic_type) ==
    IF topic_type = "agent-chat" THEN "handle_agent_chat_message"
    ELSE IF topic_type = "user-chat" THEN "handle_user_chat_message"
    ELSE IF topic_type = "user-survey" THEN "handle_user_survey_message"
    ELSE IF topic_type = "gather" THEN "handle_gather_message"
    ELSE None

\* mutant: no message is for an agent of the group
OwnsNone(mapping, agent_uuid) == FALSE

\* if agent_uuid in self.id2agent   (line 169)
Owns(mapping, agent_uuid) == agent_uuid \in DOMAIN mapping

\* the handler calls a message with a well-formed topic leads to (169-179)
Invocations(m) ==
    LET t == ParseTopic(m.topic) IN
    IF Owns(id2agent, t.agent_uuid) /\ HandlerOf(t.topic_type) # None
    THEN <<[mid |-> m.mid, agent |-> id2agent[t.agent_uuid],
            handler |-> HandlerOf(t.topic_type), payload |-> Decode(m.payload)]>>
    ELSE <<>>

\* mutant: the loop does not move past the message it has dispatched
RestSame(batch) == batch

\* the for loop moves to its next message, or the cycle sleeps (157, 181)
Rest(batch) == Tail(batch)
LoopPc(batch) == IF batch = <<>> THEN "sleep" ELSE "for"

\* the top of a cycle (148-153): the task starts or its sleep ends, the
\* connection is looked at, and fetch_messages() is awaited
DispatchTop(t) ==
    /\ dispatch[t].pc \in {"start", "sleep"}
    /\ dispatch' = [dispatch EXCEPT ![t] = [@ EXCEPT !.pc = "fetch",
                                                     !.warned = ~connected]]
    /\ UNCHANGED <<envVars, initialized, id2agent, bound, connected, listening,
                   subs, queue, delivered, handled, avro, time, call>>

\* what fetch_messages() returns and what it leaves buffered
Fetched(q) == q
Unfetched(q) == <<>>

\* messages = await self.messager.fetch_messages() returns (153)
DispatchFetch(t) ==
    /\ dispatch[t].pc = "fetch"
    /\ dispatch' = [dispatch EXCEPT ![t] = [@ EXCEPT !.pc = LoopPc(Fetched(queue)),
                                                     !.batch = Fetched(queue)]]
    /\ queue' = Unfetched(queue)
    /\ UNCHANGED <<envVars, initialized, id2agent, bound, connected, listening,
                   subs, delivered, handled, avro, time, call>>

\* one message of the batch (158-179): its topic does not unpack and the
\* ValueError ends the task, or its handler is awaited, or it is passed over
DispatchMessage(t) ==
    LET m == Head(dispatch[t].batch) IN
    /\ dispatch[t].pc = "for"
    /\ IF ParseTopic(m.topic).exc # None
       THEN /\ dispatch' = [dispatch EXCEPT ![t] = [@ EXCEPT !.pc = "dead"]]
            /\ UNCHANGED handled
       ELSE IF Invocations(m) # <<>>
            THEN /\ handled' = handled \o Invocations(m)
                 /\ dispatch' = [dispatch EXCEPT ![t] = [@ EXCEPT !.pc = "handler"]]
            ELSE /\ dispatch' = [dispatch EXCEPT ![t] =
                                   [@ EXCEPT !.batch = Rest(@),
                                             !.pc = LoopPc(Rest(dispatch[t].batch))]]
                 /\ UNCHANGED handled
    /\ UNCHANGED <<envVars, initialized, id2agent, bound, connected, listening,
                   subs, queue, delivered, avro, time, call>>

\* the awaited handler returns (173-179)
HandlerReturn(t) ==
    /\ dispatch[t].pc = "handler"
    /\ dispatch' = [dispatch EXCEPT ![t] =
                      [@ EXCEPT !.batch = Rest(@),
                                !.pc = LoopPc(Rest(dispatch[t].batch))]]
    /\ UNCHANGED <<envVars, initialized, id2agent, bound, connected, listening,
                   subs, queue, delivered, handled, avro, time, call>>

\* ------------------------------------------------------------------- broker
DictPayload == [enc |-> "dict", body |-> "hi"]
BytesPayload == [enc |-> "bytes", body |-> "hi"]

\* a topic that lacks its last segment
ShortTopic == <<"exps", exp_id, "agents", agents[1]>>

\* the messages the broker client may receive: on every topic the group
\* subscribes to, as bytes or already decoded; one whose topic is written with a
\* leading and a trailing "/"; one for an agent of another group; one of a kind
\* that has no handler; one whose topic is malformed
Inbox ==
    {[topic |-> Topic(agents[a], KINDS[k]),
      payload |-> IF (a + k) % 2 = 0 THEN BytesPayload ELSE DictPayload] :
        a \in Agents, k \in DOMAIN KINDS}
    \cup {[topic |-> <<"">> \o Topic(agents[1], "gather") \o <<"">>,
           payload |-> BytesPayload],
          [topic |-> Topic(ForeignUuid, "gather"), payload |-> BytesPayload],
          [topic |-> Topic(agents[1], "other"), payload |-> DictPayload],
          [topic |-> ShortTopic, payload |-> BytesPayload]}

\* the broker client receives a message and buffers it
Receive(topic, payload) ==
    /\ delivered < MaxMsgs
    /\ connected
    /\ listening > 0
    /\ delivered' = delivered + 1
    /\ queue' = Append(queue, [mid |-> delivered + 1, topic |-> topic,
                               payload |-> payload])
    /\ UNCHANGED <<envVars, initialized, id2agent, bound, connected, listening,
                   subs, dispatch, handled, avro, time, call>>

\* the connection to the broker is lost
Disconnect ==
    /\ connected
    /\ connected' = FALSE
    /\ UNCHANGED <<envVars, initialized, id2agent, bound, listening, subs,
                   dispatch, queue, delivered, handled, avro, time, call>>

\* the broker client reconnects by itself
Reconnect ==
    /\ ~connected
    /\ listening > 0
    /\ connected' = TRUE
    /\ UNCHANGED <<envVars, initialized, id2agent, bound, listening, subs,
                   dispatch, queue, delivered, handled, avro, time, call>>

\* ------------------------------------------------------------ specifications
\* the awaits of init_agents()
InitSteps ==
    \/ \E c \in Calls : BindReturn(c)
    \/ \E c \in Calls : InitRaise(c)
    \/ \E c \in Calls, ok \in BOOLEAN : ConnectReturn(c, ok)
    \/ \E c \in Calls : ListenReturn(c)
    \/ \E c \in Calls : SubscribeReturn(c)

\* the awaits of step() and save_status()
StepSteps ==
    \/ \E c \in Calls, a \in Agents : AgentRunDone(c, a)
    \/ \E c \in Calls, a \in Agents : AgentRunRaise(c, a)
    \/ \E c \in Calls : GatherReturn(c)
    \/ \E c \in Calls : GatherRaise(c)

\* the awaits of a group that writes avro files
AvroSteps ==
    \/ \E c \in Calls : ExportReturn(c)
    \/ \E c \in Calls : NeedsReturn(c)
    \/ \E c \in Calls : FieldsReturn(c)

\* the awaits of run(), and the simulator clock it reads
RunSteps ==
    \/ \E c \in Calls : GetStartReturn(c)
    \/ \E c \in Calls : GetTimeReturn(c)
    \/ Tick

\* the message_dispatch tasks and the broker
DispatchSteps ==
    \/ \E t \in DOMAIN dispatch : DispatchTop(t)
    \/ \E t \in DOMAIN dispatch : DispatchFetch(t)
    \/ \E t \in DOMAIN dispatch : DispatchMessage(t)
    \/ \E t \in DOMAIN dispatch : HandlerReturn(t)
    \/ \E m \in Inbox : Receive(m.topic, m.payload)
    \/ Disconnect
    \/ Reconnect

\* the whole actor
Next ==
    \/ \E c \in Calls : CallInitAgents(c)
    \/ \E c \in Calls : CallStep(c)
    \/ \E c \in Calls, d \in Days : CallRun(c, d)
    \/ InitSteps
    \/ StepSteps
    \/ AvroSteps
    \/ \E c \in Calls, pos \in Positions : PositionReturn(c, pos)
    \/ RunSteps
    \/ DispatchSteps

Spec == Init /\ [][Next]_vars

\* callers that call init_agents() and step(), with no traffic from the broker
NextCalls ==
    \/ \E c \in Calls : CallInitAgents(c)
    \/ \E c \in Calls : CallStep(c)
    \/ InitSteps
    \/ StepSteps
    \/ AvroSteps
    \/ \E c \in Calls, pos \in Positions : PositionReturn(c, pos)

SpecCalls == Init /\ [][NextCalls]_vars

\* one caller that calls run(), every agent staying on a lane
NextRun ==
    \/ \E d \in Days : CallRun(1, d)
    \/ InitSteps
    \/ StepSteps
    \/ AvroSteps
    \/ \E c \in Calls : PositionReturn(c, OnLane)
    \/ RunSteps

SpecRun == Init /\ [][NextRun]_vars

\* the event loop resumes a coroutine whose await has completed, and the awaits
\* of the collaborators complete; nothing is assumed of the simulator clock
RunProgress ==
    \/ InitSteps
    \/ StepSteps
    \/ AvroSteps
    \/ \E c \in Calls : PositionReturn(c, OnLane)
    \/ \E c \in Calls : GetStartReturn(c)
    \/ \E c \in Calls : GetTimeReturn(c)

SpecRunFair == SpecRun /\ WF_vars(RunProgress)

\* a group of citizens that writes no avro files
InitNoAvro == Init /\ ~enable_avro /\ ~institution

\* callers that call init_agents(), and the broker's traffic
NextDispatch ==
    \/ \E c \in Calls : CallInitAgents(c)
    \/ InitSteps
    \/ DispatchSteps

SpecDispatch == InitNoAvro /\ [][NextDispatch]_vars

\* the event loop resumes a dispatch task whose await has completed, and the
\* awaits of the messager, of the handlers and of the sleep complete
DispatchProgress(t) ==
    /\ t \in DOMAIN dispatch
    /\ DispatchTop(t) \/ DispatchFetch(t) \/ DispatchMessage(t) \/ HandlerReturn(t)

SpecDispatchFair == SpecDispatch /\ \A t \in Calls : WF_vars(DispatchProgress(t))

\* one caller that calls step(), and the broker's traffic
NextStepDispatch ==
    \/ CallStep(1)
    \/ InitSteps
    \/ StepSteps
    \/ DispatchSteps

SpecStepDispatch == InitNoAvro /\ [][NextStepDispatch]_vars

\* one caller that calls init_agents() on any group, and the broker's traffic
NextInitDispatch ==
    \/ CallInitAgents(1)
    \/ InitSteps
    \/ \E c \in Calls : ExportReturn(c)
    \/ DispatchSteps

SpecInitDispatch == Init /\ [][NextInitDispatch]_vars

\* ==================================================================== claims
InInit(c) == call[c].pc \in {"bind", "connect", "listen", "subscribe", "export"}
InSaveStatus(c) == call[c].pc \in {"position", "needs", "fields"}
Moved(c) == call'[c] # call[c]
StatusLog == avro.status.records

\* what the callers and the broker can see of an initialization
Observable == <<id2agent, subs, Len(dispatch), avro>>

\* C1 (as claimed): an init_agents() that runs on a group already initialized
\* changes nothing observable: no subscription is added, no dispatch task is
\* created, no avro file is opened "wb" again, the mapping is the same.
C1_InitIdempotent ==
    [][\A c \in Calls : (call[c].again /\ InInit(c) /\ Moved(c))
                            => Observable' = Observable]_vars

\* C2: once initialization has completed, the keys of id2agent are exactly the
\* ids of the owned agents and each key maps to the agent that carries it.
C2_MappingComplete ==
    initialized =>
        /\ DOMAIN id2agent = {agents[a] : a \in Agents}
        /\ \A u \in DOMAIN id2agent : id2agent[u] \in Agents /\ agents[id2agent[u]] = u

C2_Witness ==
    /\ initialized
    /\ \E c \in Calls : call[c].pc = "returned"
    /\ Cardinality(DOMAIN id2agent) = NumAgents

\* C4: a step() is in save_status() or has returned only when every agent.run()
\* of it has completed; once an agent.run() of it has raised, the step is still
\* waiting in gather or has raised itself, so it appends no status record.
C4_FanInBarrier ==
    \A c \in Calls :
        /\ (InSaveStatus(c) \/ (call[c].kind = "step" /\ call[c].pc = "returned"))
               => \A a \in Agents : call[c].tasks[a] = "done"
        /\ (\E a \in Agents : call[c].tasks[a] = "failed")
               => call[c].pc \in {"gather", "raised"}

C4_Witness ==
    /\ call[1].kind = "step" /\ call[1].pc = "returned" /\ Len(StatusLog) = NumAgents
    /\ call[2].kind = "step" /\ call[2].pc = "raised"
    /\ call[2].tasks[1] = "failed" /\ call[2].tasks[2] = "running"

\* C6 (as claimed): the status log is append-only: a step either leaves it as
\* it is or adds one record per agent after the records it holds.
C6_AppendOnly ==
    [][\/ StatusLog' = StatusLog
       \/ /\ Len(StatusLog') = Len(StatusLog) + NumAgents
          /\ SubSeq(StatusLog', 1, Len(StatusLog)) = StatusLog]_vars

\* the parent_id the claim gives a position
ExpectedParentId(pos) ==
    IF "aoi_position" \in DOMAIN pos THEN pos.aoi_position.aoi_id
    ELSE IF "lane_position" \in DOMAIN pos THEN pos.lane_position.lane_id
    ELSE -1

ExpectedRecord(c) ==
    [id |-> agents[call[c].i], lng |-> call[c].position.longlat_position.longitude,
     lat |-> call[c].position.longlat_position.latitude,
     parent_id |-> ExpectedParentId(call[c].position)]

\* C7: in save_status() of a citizen group, whatever shapes the position of an
\* agent holds, the call does not raise and the agent's record carries the
\* area-of-interest id, else the lane id, else -1; the record joins the batch,
\* and after the last agent the whole batch is appended to the status log.
C7_SentinelSubstitution ==
    [][\A c \in Calls : (call[c].pc = "needs" /\ Moved(c)) =>
          /\ call'[c].pc # "raised"
          /\ IF call[c].i < NumAgents
             THEN /\ call'[c].avros = Append(call[c].avros, ExpectedRecord(c))
                  /\ StatusLog' = StatusLog
             ELSE StatusLog' = StatusLog \o Append(call[c].avros, ExpectedRecord(c))]_vars

C7_Witness ==
    /\ ~institution
    /\ Len(StatusLog) = NumAgents
    /\ StatusLog[1].parent_id = -1
    /\ StatusLog[2].parent_id # -1

\* an awaited call of init_agents() ends in a failure: it raises, or it is the
\* connect and the messager is not connected after it
InitFails(c) ==
    /\ InInit(c)
    /\ Moved(c)
    /\ call'[c].pc = "raised" \/ (call[c].pc = "connect" /\ ~connected')

PastInit(c) ==
    \/ call[c].pc \in {"returned", "gather", "position", "needs", "fields", "get_time"}
    \/ call[c].pc = "raised" /\ call[c].tasks[1] # None

CallsFor(m) == SelectSeq(handled, LAMBDA h : h.mid = m.mid)

\* the topic of a message names agent id u and kind k
Names(m, u, k) ==
    \/ m.topic = <<"exps", exp_id, "agents", u, k>>
    \/ m.topic = <<"", "exps", exp_id, "agents", u, k, "">>

HandlerName(k) ==
    CASE k = "agent-chat" -> "handle_agent_chat_message"
      [] k = "user-chat" -> "handle_user_chat_message"
      [] k = "user-survey" -> "handle_user_survey_message"
      [] k = "gather" -> "handle_gather_message"

\* the one handler call the claim gives a message for agent a of the group
ExpectedCall(m, a, k) ==
    [mid |-> m.mid, agent |-> a, handler |-> HandlerName(k),
     payload |-> [enc |-> "dict", body |-> m.payload.body]]

\* the handler calls a fetched message has got are those the claim gives it
Routed(m) ==
    \A k \in Range(KINDS) :
        /\ \A a \in Agents : Names(m, agents[a], k)
                                => CallsFor(m) = <<ExpectedCall(m, a, k)>>
        /\ Names(m, ForeignUuid, k) => CallsFor(m) = <<>>

\* C3 (as claimed): every message a dispatch task has fetched, and whose topic
\* names an agent and one of the four kinds, gets exactly the handler call of
\* that kind on that agent, with the decoded payload, when the agent is in the
\* mapping, and none when it is not: it has it while its handler is awaited, and
\* it has it when the task has stopped with the message in its batch.
C3_DispatchCorrect ==
    \A t \in DOMAIN dispatch :
        /\ dispatch[t].pc = "handler" => Routed(Head(dispatch[t].batch))
        /\ dispatch[t].pc = "dead" =>
               \A i \in DOMAIN dispatch[t].batch : Routed(dispatch[t].batch[i])

\* C9: no message received from the broker has two handler calls.
C9_AtMostOnce ==
    \A i, j \in DOMAIN handled : handled[i].mid = handled[j].mid => i = j

C9_Witness ==
    /\ Len(dispatch) = 2
    /\ Len(handled) = 2
    /\ handled[1].mid # handled[2].mid
    /\ \A t \in DOMAIN dispatch : dispatch[t].pc = "sleep"

\* C10 (as claimed): a message whose topic does not split into five segments
\* is skipped: the loop moves to the next message of the batch with no handler
\* call, and the task goes on.
C10_MalformedSkipped ==
    [][\A t \in DOMAIN dispatch :
          (/\ dispatch[t].pc = "for"
           /\ dispatch'[t] # dispatch[t]
           /\ \A u \in Range(agents) \cup {ForeignUuid}, k \in Range(KINDS) \cup {"other"} :
                  ~Names(Head(dispatch[t].batch), u, k))
          => /\ dispatch'[t].batch = Tail(dispatch[t].batch)
             /\ dispatch'[t].pc \in {"for", "sleep"}
             /\ handled' = handled]_vars

\* the run() call's target time, t0 + d * 86400
Target(c) == call[c].start_time + call[c].day * 86400
Started(c) == call[c].kind = "run" /\ call[c].pc \notin {"idle", "get_start"}
InStep(c) == InInit(c) \/ InSaveStatus(c) \/ call[c].pc = "gather"

\* C5: a step of run(d) is under way only after a reading of the clock below
\* t0 + d * 86400, and run has returned only after a reading at or above it;
\* a clock reading below the target starts a step and the first reading at or
\* above it makes run return; run(0) starts no step; and if the clock reaches
\* the target, run ends.
C5_RunTermination ==
    /\ [](\A c \in Calls : Started(c) =>
            /\ InStep(c) => call[c].current_time < Target(c)
            /\ call[c].pc = "returned" => call[c].current_time >= Target(c)
            /\ call[c].day = 0 => ~InStep(c))
    /\ [][\A c \in Calls : (Started(c) /\ call[c].pc = "get_time" /\ Moved(c)) =>
            /\ call'[c].current_time = time
            /\ IF time >= Target(c) THEN call'[c].pc = "returned"
                                    ELSE call'[c].pc \in {"bind", "gather"}]_vars
    /\ \A c \in Calls :
          <>[](Started(c) /\ time >= Target(c)) => <>(call[c].pc \in {"returned", "raised"})

C5_Witness ==
    /\ call[1].kind = "run" /\ call[1].day = 1 /\ call[1].pc = "returned"
    /\ call[1].start_time = 43200
    /\ call[1].current_time = 129600
    /\ Len(StatusLog) = 2 * NumAgents

\* an agent.run() of the step the call is in has raised
Failing(c) == \E a \in Agents : call[c].tasks[a] = "failed"

\* C11: once an agent.run() of a step of run() has raised, the status log gets
\* no record, run() starts no further step (it waits in gather or has raised),
\* what gather raises leaves run() raising, and a run() that has raised stays so.
C11_StepFailureEndsRun ==
    [][\A c \in Calls : call[c].kind = "run" =>
          /\ Failing(c) => /\ StatusLog' = StatusLog
                           /\ call'[c].pc \in {"gather", "raised"}
          /\ (Failing(c) /\ call[c].pc = "gather" /\ call'[c].pc # "gather")
                => call'[c].pc = "raised"
          /\ call[c].pc = "raised" => call'[c].pc = "raised"]_vars

C11_Witness ==
    /\ call[1].kind = "run" /\ call[1].pc = "raised"
    /\ call[1].tasks[2] = "failed"
    /\ enable_avro
    /\ Len(StatusLog) = NumAgents

\* the dispatch task is awaiting a handler of agent a
Handling(t, a) ==
    /\ dispatch[t].pc = "handler"
    /\ \E k \in Range(KINDS) : Names(Head(dispatch[t].batch), agents[a], k)

\* a dispatch task calls handlers in the order of its batch, one at a time: the
\* message it hands over is the first it still holds, it holds it until the
\* handler returns, and it hands over nothing while a handler is awaited
InBatchOrder(t) ==
    /\ dispatch[t].pc \in {"for", "handler"} =>
           dispatch'[t].batch \in {dispatch[t].batch, Tail(dispatch[t].batch)}
    /\ (dispatch[t].pc = "for" /\ dispatch'[t].pc = "handler") =>
           /\ dispatch'[t].batch = dispatch[t].batch
           /\ Len(handled') = Len(handled) + 1
           /\ handled'[Len(handled')].mid = Head(dispatch[t].batch).mid
    /\ (dispatch[t].pc = "handler" /\ dispatch'[t] # dispatch[t]) =>
           /\ dispatch'[t].batch = Tail(dispatch[t].batch)
           /\ handled' = handled
    /\ (dispatch[t].pc = "for" /\ dispatch'[t] # dispatch[t]
           /\ dispatch'[t].pc # "handler") => handled' = handled

\* C12 (as claimed): the messages of one fetch are handed to handlers in fetch
\* order, one handler at a time per task, and no agent has two of its message
\* handlers in progress at once.
C12_OrderedNonInterleaved ==
    /\ [][\A t \in DOMAIN dispatch : InBatchOrder(t)]_vars
    /\ [](\A a \in Agents :
            Cardinality({t \in DOMAIN dispatch : Handling(t, a)}) <= 1)

\* C13 (as claimed): whatever calls are in progress, at most one of them is in
\* save_status(), and a call is in save_status() only after a gather whose
\* every agent.run() completed.
C13_OneSaveStatus ==
    /\ Cardinality({c \in Calls : InSaveStatus(c)}) <= 1
    /\ \A c \in Calls :
          InSaveStatus(c) => \A a \in Agents : call[c].tasks[a] = "done"

\* C14 (as claimed): when the group is driven by step() calls only, overlapping
\* or not, the body of init_agents() runs once: no agent is bound twice, at
\* most one dispatch task exists and no avro file is created twice.
C14_InitOnce ==
    (\A c \in Calls : call[c].kind \in {None, "step"}) =>
        /\ \A a \in Agents : bound[a] <= 1
        /\ Len(dispatch) <= 1
        /\ \A f \in AvroKinds : avro[f].opens <= 1

\* the cycle the dispatch task is in found the messager disconnected at its top
Warned(t) == t \in DOMAIN dispatch /\ dispatch[t].warned

\* the dispatch task is at the given await
At(t, pc) == t \in DOMAIN dispatch /\ dispatch[t].pc = pc

\* C15 (as claimed): a dispatch task that finds the messager disconnected at
\* the top of a cycle does not end: it gets through the cycle to its sleep and
\* from the sleep to the next fetch, so while the messager stays disconnected
\* the task goes on polling, and it dispatches again once the messager is
\* connected.
C15_OutageResilience ==
    /\ [][\A t \in DOMAIN dispatch : Warned(t) => dispatch'[t].pc # "dead"]_vars
    /\ \A t \in Calls :
          /\ Warned(t) ~> At(t, "sleep")
          /\ At(t, "sleep") ~> At(t, "fetch")
          /\ <>[](t \in DOMAIN dispatch /\ ~connected)
                => []<>(At(t, "fetch") /\ Warned(t))

\* C16 (as claimed): in a cycle at whose top the messager is not connected, the
\* dispatch task takes no message from the messager's buffer, holds no
\* message and no handler is invoked.
C16_SkippedWhileDisconnected ==
    [][\A t \in DOMAIN dispatch :
          (Warned(t) /\ dispatch'[t] # dispatch[t])
             => /\ queue' = queue
                /\ handled' = handled
                /\ dispatch'[t].batch = <<>>]_vars

\* the call leaves the connect-and-subscribe part of init_agents() (83-95)
\* without raising: after its last subscribe, or after a connect() that left
\* the messager unconnected
SubscribedAll(c) ==
    /\ call[c].pc = "subscribe"
    /\ call'[c].pc \notin {"subscribe", "raised"}
NotConnected(c) ==
    /\ call[c].pc = "connect"
    /\ call'[c].pc \notin {"connect", "listen", "raised"}

\* C17 (as claimed): when an initialization has connected, the group then
\* holds one subscription for each of the four topics of each owned agent;
\* when it has not, listening was not started and there is no subscription.
C17_SubscribedIffConnected ==
    [][\A c \in Calls :
          /\ SubscribedAll(c) =>
                \A u \in Range(agents), k \in Range(KINDS) : subs'[Topic(u, k)] = 1
          /\ NotConnected(c) =>
                /\ listening' = 0
                /\ \A u \in Range(agents), k \in Range(KINDS) :
                      subs'[Topic(u, k)] = 0]_vars

\* the call's init_agents() has ended, returning or raising
InitEnded(c) == PastInit(c) \/ call[c].pc = "raised"

\* C18 (as claimed): once an init_agents() has ended, with or without a
\* failure, either every owned agent is bound to the simulator or none is.
C18_AllOrNothingBinding ==
    (\E c \in Calls : InitEnded(c)) =>
        \/ \A a \in Agents : bound[a] > 0
        \/ \A a \in Agents : bound[a] = 0

\* an agent.run() of agent a, issued by a step(), is in progress
Stepping(a) == \E c \in Calls : call[c].pc = "gather" /\ call[c].tasks[a] = "running"

\* C19: step() and the dispatch task take no lock: a dispatch task that comes
\* to a message for agent a of one of the four kinds while an agent.run() of
\* a is in progress calls the handler all the same, and the agent.run() is
\* still in progress when the handler is awaited; so an agent can have a step
\* and a message handler in progress at once.
C19_StepHandlerOverlap ==
    [][\A t \in DOMAIN dispatch, a \in Agents :
          (/\ dispatch[t].pc = "for"
           /\ dispatch'[t] # dispatch[t]
           /\ \E k \in Range(KINDS) : Names(Head(dispatch[t].batch), agents[a], k)
           /\ Stepping(a))
          => (Handling(t, a) /\ Stepping(a))']_vars

C19_Witness ==
    \E t \in DOMAIN dispatch :
        /\ Handling(t, 1) /\ Stepping(1)
        /\ handled[Len(handled)].agent = 1
        /\ handled[Len(handled)].handler = "handle_agent_chat_message"

AllBound == \A a \in Agents : bound[a] >= 1
MappingBuilt == DOMAIN id2agent = Range(agents)
Exists(f) == avro[f].opens >= 1

====
